---- MODULE Spec2Model ----
(***************************************************************************)
(* Model of the three heap allocators of thass0/memory-allocators:         *)
(*   src/free-list/explicit_free_list.c   (definitions prefixed E_)        *)
(*   src/free-list/free_list1.c           (definitions prefixed F_)        *)
(*   src/free-list/segregated_free_list.c (definitions prefixed S_)        *)
(* The heap is modelled word by word: mem maps every word address of the   *)
(* arena to the value stored there, so block headers, stale headers and    *)
(* payload data all live in the same memory, as they do in the program.    *)
(* Integers have PtrBits bits (ptrdiff_t signed, size_t unsigned).         *)
(***************************************************************************)
EXTENDS Integers, FiniteSets, Sequences, TLC

\* ------------------------------------------------------------------ bounds
\* Width in bits of ptrdiff_t / size_t / pointers in the model.
PtrBits == 12
\* Largest arena, in words, the break primitive grants before refusing,
\* for the explicit, the free_list1 and the segregated program.
E_MaxHeapWords == 18
F_MaxHeapWords == 8
S_MaxHeapWords == 24
\* Number of calls the caller makes in one run.
MaxCalls == 9
\* Number of calls in one run of a caller that also uses realloc and calloc.
MaxApiCalls == 6
\* Number of calls in one run of a caller that uses everything a program
\* offers, reset_heap included.
MaxSpecCalls == 5
\* Number of calls in one run of a caller that tries calloc with large
\* arguments.
MaxCallocCalls == 2

\* --------------------------------------------------------------- constants
\* sizeof(word_t)
W == 8
NULL == 0
\* sizeof(BlockHdr) of explicit_free_list.c: size, next, prev.
E_HDR == 3 * W
\* Offsets of the fields of the explicit variant's struct BlockHdr.
E_NEXT == W
E_PREV == 2 * W

Mod == 2 ^ PtrBits
SizeMax == Mod - 1
PtrdiffMax == (Mod \div 2) - 1
\* The initial program break (word aligned).
HeapBase == 2 * W
MaxHeapWords(b) ==
  CASE b = "explicit" -> E_MaxHeapWords
    [] b = "free_list1" -> F_MaxHeapWords
    [] OTHER -> S_MaxHeapWords
\* The highest break the kernel grants.
HeapLimit(b) == HeapBase + W * MaxHeapWords(b)
\* Every word address of the arena, plus the word at the highest break.
HeapAddrs(b) == {HeapBase + W * i : i \in 0..MaxHeapWords(b)}
\* The byte pattern a caller writes into its payloads (all bits set).
Pattern == SizeMax

\* Conversion to size_t (wraps modulo 2^PtrBits).
ToU(x) == x % Mod
\* Conversion to ptrdiff_t (two's complement).
ToS(x) == IF ToU(x) >= Mod \div 2 THEN ToU(x) - Mod ELSE ToU(x)

VARIABLES
  build,             \* which of the three programs is running
  mem,               \* the memory of the arena, word address -> value
  brk,               \* the program break
  fault,             \* "none", or how the process died
  live,              \* payload pointer -> number of times the caller holds it
  last,              \* the last call: operation, arguments, result
  calls,             \* number of calls made so far
  global_free_list,  \* explicit: head of the free list
  init,              \* explicit: the first block on the heap
  free_list_start,   \* free_list1: first block
  free_list_top,     \* free_list1: top block
  global_buckets,    \* segregated: bucket heads
  heap_base_addr,    \* segregated: recorded initial break
  SEARCH_MODE,       \* free_list1: the search the build was compiled with
  next_fit_start     \* free_list1, NEXT_FIT: where the next search starts

vars == <<build, mem, brk, fault, live, last, calls, global_free_list, init,
          free_list_start, free_list_top, global_buckets, heap_base_addr,
          SEARCH_MODE, next_fit_start>>

\* ------------------------------------------------------------ the machine
\* The state a C function works on, as one record.  mapped tells whether
\* the words between the break and the end of its page can be accessed
\* (they can, unless the break sits on a page boundary).
Machine(mapped) ==
  [mem |-> mem, brk |-> brk, fault |-> fault, oom |-> FALSE,
   limit |-> HeapLimit(build), mapped |-> mapped,
   global_free_list |-> global_free_list, init |-> init,
   free_list_start |-> free_list_start, free_list_top |-> free_list_top,
   global_buckets |-> global_buckets, heap_base_addr |-> heap_base_addr,
   SEARCH_MODE |-> SEARCH_MODE, next_fit_start |-> next_fit_start]

\* The word at address a can be accessed.
Acc(s, a) == a \in DOMAIN s.mem /\ (a < s.brk \/ s.mapped)

Fail(s, how) == IF s.fault = "none" THEN [s EXCEPT !.fault = how] ELSE s

\* A load; what a load outside the arena yields does not matter, because
\* the process dies there (see Chk).
Ld(s, a) == IF a \in DOMAIN s.mem THEN s.mem[a] ELSE 0

\* The process dies when it dereferences an address it cannot access.
Chk(s, a) == IF Acc(s, a) THEN s ELSE Fail(s, "segv")

\* A store.
St(s, a, v) ==
  IF s.fault # "none" THEN s
  ELSE IF Acc(s, a) THEN [s EXCEPT !.mem[a] = v]
  ELSE Fail(s, "segv")

\* sbrk(incr) refuses (returns -1, no change) a break above the limit or
\* below the start of the heap.
SbrkFails(s, incr) == s.brk + incr > s.limit \/ s.brk + incr < HeapBase

Sbrk(s, incr) ==
  IF s.fault # "none" THEN s
  ELSE IF SbrkFails(s, incr) THEN [s EXCEPT !.oom = TRUE]
  ELSE [s EXCEPT !.brk = s.brk + incr]

\* ===================================================== explicit_free_list.c
E_size(s, blk) == Ld(s, blk)
E_next(s, blk) == Ld(s, blk + E_NEXT)
E_prev(s, blk) == Ld(s, blk + E_PREV)
\* The process dies unless the three header words of blk are in the arena.
E_ChkHdr(s, blk) == Chk(Chk(Chk(s, blk), blk + E_NEXT), blk + E_PREV)

E_user_mem(blk) == ToU(blk + E_HDR)
E_mem_hdr(p) == ToU(p - E_HDR)

E_add_block(s0, blk) ==
  LET s  == E_ChkHdr(s0, blk)
      s1 == IF s.global_free_list = NULL
            THEN St(s, blk + E_PREV, NULL)
            ELSE St(St(s, s.global_free_list + E_NEXT, blk),
                    blk + E_PREV, s.global_free_list)
      s2 == St(s1, blk + E_NEXT, NULL)
  IN  IF s2.fault # "none" THEN s2 ELSE [s2 EXCEPT !.global_free_list = blk]

E_remove_block(s0, blk) ==
  LET s    == E_ChkHdr(s0, blk)
      s1   == IF s.global_free_list = blk
              THEN [s EXCEPT !.global_free_list = E_prev(s, blk)]
              ELSE s
      next == E_next(s1, blk)
      prev == E_prev(s1, blk)
      s2   == IF next # NULL THEN St(s1, next + E_PREV, prev) ELSE s1
      s3   == IF prev # NULL THEN St(s2, prev + E_NEXT, next) ELSE s2
  IN  IF s.fault # "none" THEN s ELSE s3

\* The loop of find_block: blk walks the list through prev.  A list that
\* leads back to a block already visited makes the loop run forever.
RECURSIVE E_find_loop(_, _, _, _, _)
E_find_loop(s, size, blk, best_blk, seen) ==
  IF blk = NULL THEN [blk |-> best_blk, fault |-> "none"]
  ELSE IF E_ChkHdr(s, blk).fault # "none" THEN [blk |-> NULL, fault |-> "segv"]
  ELSE IF blk \in seen THEN [blk |-> NULL, fault |-> "hang"]
  ELSE IF E_size(s, blk) = size THEN [blk |-> blk, fault |-> "none"]
  ELSE E_find_loop(s, size, E_prev(s, blk),
         IF E_size(s, blk) > size
            /\ (best_blk = NULL \/ E_size(s, blk) < E_size(s, best_blk))
         THEN blk ELSE best_blk,
         seen \cup {blk})

E_find_block(s, size) == E_find_loop(s, size, s.global_free_list, NULL, {})

E_split_block(s0, blk, size) ==
  LET s == E_ChkHdr(s0, blk)
      real_size == ToS(E_HDR + size)
      rem == ToU(blk + real_size)
      s1 == St(s, rem, ToS(E_size(s, blk) - real_size))
      s2 == St(s1, blk, size)
      s3 == St(s2, rem + E_PREV, E_prev(s2, blk))
      s4 == St(s3, blk + E_PREV, rem)
      s5 == St(s4, rem + E_NEXT, blk)
  IN  IF s.fault # "none" THEN s
      ELSE IF E_size(s, blk) < size THEN Fail(s, "abort")
      ELSE IF ToU(E_size(s, blk)) < ToU(real_size + W) THEN s
      ELSE s5

\* The state after request_block_from_os; the block is E_request_blk.
E_request_block_from_os(s, size) ==
  LET real_size == ToS(E_HDR + size)
      s1 == IF s.init = NULL THEN [s EXCEPT !.init = s.brk] ELSE s
  IN  IF ToU(size) < W THEN Fail(s, "abort") ELSE Sbrk(s1, real_size)

E_request_blk(s, size) ==
  IF SbrkFails(s, ToS(E_HDR + size)) THEN NULL ELSE s.brk

\* align that does not round.
E_align_NoRound(size) == size

E_align(size) == ToS((ToU(size) + (W - 1)) - ((ToU(size) + (W - 1)) % W))

\* alloc that rejects only negative sizes.
E_alloc_ZeroPasses(s, size0) ==
  IF size0 < 0 THEN [s |-> s, ret |-> NULL]
  ELSE
    LET size  == E_align(size0)
        found == E_find_block(s, size)
    IN  IF found.fault # "none"
        THEN [s |-> Fail(s, found.fault), ret |-> NULL]
        ELSE IF found.blk # NULL
        THEN [s |-> E_remove_block(E_split_block(s, found.blk, size), found.blk),
              ret |-> E_user_mem(found.blk)]
        ELSE LET blk == E_request_blk(s, size)
                 s1  == E_request_block_from_os(s, size)
                 s2  == St(s1, blk, size)
                 s3  == St(s2, blk + E_PREV, NULL)
                 s4  == St(s3, blk + E_NEXT, NULL)
             IN  [s |-> s4, ret |-> E_user_mem(blk)]

\* alloc: the state afterwards (field ret holds the returned pointer).
E_alloc(s, size0) ==
  IF size0 <= 0 THEN [s |-> s, ret |-> NULL]
  ELSE
    LET size  == E_align(size0)
        found == E_find_block(s, size)
    IN  IF found.fault # "none"
        THEN [s |-> Fail(s, found.fault), ret |-> NULL]
        ELSE IF found.blk # NULL
        THEN [s |-> E_remove_block(E_split_block(s, found.blk, size), found.blk),
              ret |-> E_user_mem(found.blk)]
        ELSE LET blk == E_request_blk(s, size)
                 s1  == E_request_block_from_os(s, size)
                 s2  == St(s1, blk, size)
                 s3  == St(s2, blk + E_PREV, NULL)
                 s4  == St(s3, blk + E_NEXT, NULL)
             IN  [s |-> s4, ret |-> E_user_mem(blk)]

E_is_adjacent(s, blka, blkb) ==
  ToU(blka + E_HDR + E_size(s, blka)) = ToU(blkb)

E_merge_block(s0, blk) ==
  LET s  == E_ChkHdr(s0, blk)
      p1 == E_prev(s, blk)
      c1 == IF p1 # NULL /\ E_is_adjacent(s, blk, p1) THEN Chk(s, p1) ELSE s
      s1 == IF p1 # NULL /\ E_is_adjacent(s, blk, p1)
            THEN E_remove_block(
                   St(c1, blk, ToS(E_size(c1, blk) + E_HDR + E_size(c1, p1))),
                   p1)
            ELSE s
      p2 == E_prev(s1, blk)
      c2 == IF p2 # NULL THEN Chk(s1, p2) ELSE s1
      s2 == IF p2 # NULL /\ E_is_adjacent(c2, p2, blk)
            THEN E_remove_block(
                   St(c2, p2, ToS(E_size(c2, p2) + E_HDR + E_size(c2, blk))),
                   blk)
            ELSE c2
  IN  s2

E_wfree(s, p) ==
  IF p = NULL THEN s
  ELSE LET blk == E_mem_hdr(p)
       IN  E_merge_block(E_add_block(s, blk), blk)

\* malloc(size_t size) passes its argument to alloc(ptrdiff_t).
E_malloc(s, size) == E_alloc(s, ToS(size))

E_free(s, p) == E_wfree(s, p)

\* The one element of a singleton; {e(x) : x \in {v}} names an intermediate
\* value x once, as a local variable of the source does.
Only(S) == CHOOSE x \in S : TRUE

\* memcpy(dst, src, n), word by word.
Memcpy(s, dst, src, n) ==
  LET cnt == ToU(n) \div W
      D   == {dst + W * i : i \in 0..(cnt - 1)}
      S   == {src + W * i : i \in 0..(cnt - 1)}
  IN  IF s.fault # "none" THEN s
      ELSE IF \E a \in D \cup S : ~Acc(s, a) THEN Fail(s, "segv")
      ELSE [s EXCEPT !.mem = [a \in DOMAIN s.mem |->
                                IF a \in D THEN s.mem[src + (a - dst)]
                                ELSE s.mem[a]]]

\* memset(p, 0, n), word by word.
Memset0(s, p, n) ==
  LET cnt == ToU(n) \div W
      D   == {p + W * i : i \in 0..(cnt - 1)}
  IN  IF s.fault # "none" THEN s
      ELSE IF \E a \in D : ~Acc(s, a) THEN Fail(s, "segv")
      ELSE [s EXCEPT !.mem = [a \in DOMAIN s.mem |->
                                IF a \in D THEN 0 ELSE s.mem[a]]]

\* realloc that keeps a block only if it is strictly larger than asked.
E_realloc_Strict(s, p, size) ==
  IF p = NULL THEN E_malloc(s, size)
  ELSE
    LET blk == E_mem_hdr(p)
        c   == E_ChkHdr(s, blk)
    IN  IF c.fault # "none" THEN [s |-> c, ret |-> NULL]
        ELSE IF ToU(E_size(s, blk)) > size THEN [s |-> s, ret |-> p]
        ELSE Only({IF r.s.fault # "none" \/ r.ret = NULL
                   THEN [s |-> r.s, ret |-> NULL]
                   ELSE Only({[s |-> E_free(c1, p), ret |-> r.ret] :
                              c1 \in {Memcpy(r.s, r.ret, p, E_size(r.s, blk))}})
                   : r \in {E_malloc(s, size)}})

E_realloc(s, p, size) ==
  IF p = NULL THEN E_malloc(s, size)
  ELSE
    LET blk == E_mem_hdr(p)
        c   == E_ChkHdr(s, blk)
    IN  IF c.fault # "none" THEN [s |-> c, ret |-> NULL]
        ELSE IF ToU(E_size(s, blk)) >= size THEN [s |-> s, ret |-> p]
        ELSE Only({IF r.s.fault # "none" \/ r.ret = NULL
                   THEN [s |-> r.s, ret |-> NULL]
                   ELSE Only({[s |-> E_free(c1, p), ret |-> r.ret] :
                              c1 \in {Memcpy(r.s, r.ret, p, E_size(r.s, blk))}})
                   : r \in {E_malloc(s, size)}})

\* The bound below which calloc skips its overflow test: 65535 in the
\* source, the largest factor whose square fits a 32 bit size_t; here the
\* largest factor whose square fits PtrBits bits.
CallocSmall == 2 ^ (PtrBits \div 2) - 1

\* calloc's overflow test with a quotient that is off by one.
E_calloc_rejects_OffByOne(n, size) ==
  (n > CallocSmall \/ size > CallocSmall) /\ (SizeMax \div n) <= size

\* calloc's overflow test, for n > 0: it rejects the request.
E_calloc_rejects(n, size) ==
  (n > CallocSmall \/ size > CallocSmall) /\ (SizeMax \div n) < size

\* calloc. With n = 0 and a large size the test divides by zero, which is
\* undefined: a build that emits the division traps (traps), a build that
\* turns the test into a check of the multiplication goes on to malloc(0).
E_calloc(s, n, size, traps) ==
  IF (n > CallocSmall \/ size > CallocSmall) /\ n = 0
  THEN IF traps THEN [s |-> Fail(s, "sigfpe"), ret |-> NULL]
       ELSE E_malloc(s, 0)
  ELSE IF E_calloc_rejects(n, size)
  THEN [s |-> s, ret |-> NULL]
  ELSE Only({IF r.s.fault # "none" \/ r.ret = NULL
             THEN [s |-> r.s, ret |-> NULL]
             ELSE [s |-> Memset0(r.s, r.ret, size), ret |-> r.ret]
             : r \in {E_malloc(s, ToU(size * n))}})

\* A caller fills the payload it was granted, size(block(p)) bytes.
E_PayloadWords(m, p) ==
  {a \in DOMAIN m : a >= p /\ a < p + m[E_mem_hdr(p)]}

\* ============================================================ free_list1.c
\* SIZEOF_HDR: the header word in front of the payload.
F_HDR == W
\* The values of SEARCH_MODE.
FIRST_FIT == 0
NEXT_FIT == 1
BEST_FIT == 2
\* Bit k of a header word.
Bit(h, k) == (h \div (2 ^ k)) % 2

F_sizeb(s, blk) == ToS(Ld(s, blk) - (Ld(s, blk) % W))

F_set_sizeb(s, blk, size) ==
  IF ToU(size) % W # 0 THEN Fail(s, "abort")
  ELSE St(Chk(s, blk), blk, ToU(size) + (Ld(s, blk) % W))

F_usedb(s, blk) == Bit(Ld(s, blk), 0) = 1

F_set_usedb(s, blk) ==
  St(Chk(s, blk), blk, Ld(s, blk) + (1 - Bit(Ld(s, blk), 0)))

F_unset_usedb(s, blk) ==
  St(Chk(s, blk), blk, Ld(s, blk) - Bit(Ld(s, blk), 0))

\* set_lastb clears bit 1, unset_lastb sets it.
F_set_lastb(s, blk) ==
  St(Chk(s, blk), blk, Ld(s, blk) - 2 * Bit(Ld(s, blk), 1))

F_unset_lastb(s, blk) ==
  St(Chk(s, blk), blk, Ld(s, blk) + 2 * (1 - Bit(Ld(s, blk), 1)))

F_nextb(s, blk) ==
  IF Bit(Ld(s, blk), 1) = 0 THEN NULL
  ELSE ToU(blk + F_sizeb(s, blk) + F_HDR)

\* The loop of best_fit; a chain that comes back to a visited block makes
\* it run forever, a chain that leaves the accessible memory kills it.
RECURSIVE F_best_loop(_, _, _, _, _)
F_best_loop(s, size, blk, best_blk, seen) ==
  IF blk = NULL THEN [blk |-> best_blk, fault |-> "none"]
  ELSE IF ~Acc(s, blk) THEN [blk |-> NULL, fault |-> "segv"]
  ELSE IF blk \in seen THEN [blk |-> NULL, fault |-> "hang"]
  ELSE IF ~F_usedb(s, blk) /\ F_sizeb(s, blk) = size
  THEN [blk |-> blk, fault |-> "none"]
  ELSE F_best_loop(s, size, F_nextb(s, blk),
         IF ~F_usedb(s, blk) /\ F_sizeb(s, blk) > size
            /\ (best_blk = NULL \/ F_sizeb(s, blk) < F_sizeb(s, best_blk))
         THEN blk ELSE best_blk,
         seen \cup {blk})

F_best_fit(s, size) == F_best_loop(s, size, s.free_list_start, NULL, {})

\* The loop of next_fit from block blk; seen are the blocks visited so far.
\* The search changes nothing but next_fit_start, so a walk that comes
\* back to a visited block other than next_fit_start runs forever.
RECURSIVE F_next_loop(_, _, _, _)
F_next_loop(s, size, blk, seen) ==
  IF blk = NULL
  THEN [blk |-> NULL, fault |-> "none", next_fit_start |-> s.next_fit_start]
  ELSE IF ~Acc(s, blk)
  THEN [blk |-> NULL, fault |-> "segv", next_fit_start |-> s.next_fit_start]
  ELSE IF blk \in seen
  THEN [blk |-> NULL, fault |-> "hang", next_fit_start |-> s.next_fit_start]
  ELSE IF F_usedb(s, blk) \/ F_sizeb(s, blk) < size
  THEN LET nxt == IF F_nextb(s, blk) = NULL THEN s.free_list_start
                  ELSE F_nextb(s, blk)
       IN  IF nxt = s.next_fit_start
           THEN [blk |-> NULL, fault |-> "none",
                 next_fit_start |-> s.next_fit_start]
           ELSE F_next_loop(s, size, nxt, seen \cup {blk})
  ELSE [blk |-> blk, fault |-> "none", next_fit_start |-> blk]

F_next_fit(s, size) == F_next_loop(s, size, s.next_fit_start, {})

\* SEARCH_MODE is BEST_FIT unless the build overrides it. The result carries
\* the value the search leaves in next_fit_start.
F_find_block(s, size) ==
  IF s.SEARCH_MODE = NEXT_FIT THEN F_next_fit(s, size)
  ELSE [blk |-> F_best_fit(s, size).blk, fault |-> F_best_fit(s, size).fault,
        next_fit_start |-> s.next_fit_start]

F_alloc_size(size) == ToS(size + F_HDR)

\* The state after request_block; the block is F_request_blk.
F_request_block(s, size) == Sbrk(s, F_alloc_size(size))

F_request_blk(s, size) ==
  IF SbrkFails(s, F_alloc_size(size)) THEN NULL ELSE s.brk

F_align(size) == ToS((ToU(size) + W - 1) - ((ToU(size) + W - 1) % W))

F_can_split(s, blk, size) ==
  ToU(F_HDR + size + W) <= ToU(F_sizeb(s, blk))

F_split_block(s, blk, size) ==
  LET needed   == ToS(F_HDR + size)
      free_blk == ToU(blk + needed)
      s1 == F_set_sizeb(s, free_blk, ToS(F_sizeb(s, blk) - needed))
      s2 == IF F_nextb(s1, blk) = NULL
            THEN F_set_lastb(s1, free_blk)
            ELSE F_unset_lastb(s1, free_blk)
      s3 == F_unset_usedb(s2, free_blk)
      s4 == F_set_sizeb(s3, blk, size)
  IN  IF ~F_can_split(s, blk, size) THEN Fail(s, "abort") ELSE s4

\* alloc: the state afterwards (field ret holds the returned pointer).
F_alloc(s0, size0) ==
  IF size0 <= 0 THEN [s |-> s0, ret |-> NULL]
  ELSE
    LET size  == F_align(size0)
        found == F_find_block(s0, size)
        s     == [s0 EXCEPT !.next_fit_start = found.next_fit_start]
    IN  IF found.fault # "none"
        THEN [s |-> Fail(s, found.fault), ret |-> NULL]
        ELSE IF found.blk # NULL
        THEN [s |-> F_set_usedb(IF F_can_split(s, found.blk, size)
                                THEN F_split_block(s, found.blk, size)
                                ELSE s,
                                found.blk),
              ret |-> ToU(found.blk + F_HDR)]
        ELSE IF F_request_blk(s, size) = NULL
        THEN [s |-> F_request_block(s, size), ret |-> NULL]
        ELSE LET blk == F_request_blk(s, size)
                 s1  == F_request_block(s, size)
                 s2  == F_set_lastb(F_set_usedb(F_set_sizeb(s1, blk, size),
                                                blk), blk)
                 s3  == IF s2.free_list_start = NULL
                        THEN [s2 EXCEPT
                                !.free_list_start = blk,
                                !.next_fit_start =
                                  IF s2.SEARCH_MODE = NEXT_FIT THEN blk ELSE @]
                        ELSE s2
                 s4  == IF s3.free_list_top # NULL
                        THEN F_unset_lastb(s3, s3.free_list_top) ELSE s3
             IN  [s |-> [s4 EXCEPT !.free_list_top = blk],
                  ret |-> ToU(blk + F_HDR)]

F_block_header(data) == ToU(data - F_HDR)

F_can_coalesce(s, blk) ==
  F_nextb(s, blk) # NULL /\ ~F_usedb(s, F_nextb(s, blk))

\* coalesce reads nextb(blk) again after it has changed the size of blk.
F_coalesce(s, blk) ==
  LET s1 == F_set_sizeb(s, blk,
              ToS(F_sizeb(s, blk) + F_sizeb(s, F_nextb(s, blk)) + F_HDR))
      n1 == F_nextb(s1, blk)
      c1 == Chk(s1, n1)
  IN  IF ~F_can_coalesce(s, blk) THEN Fail(s, "abort")
      ELSE IF c1.fault # "none" THEN c1
      ELSE IF F_nextb(s1, n1) = NULL THEN F_set_lastb(s1, blk)
      ELSE s1

F_free_(s, data) ==
  IF data = NULL THEN s
  ELSE LET blk == F_block_header(data)
           c   == Chk(s, blk)
           n   == F_nextb(s, blk)
           c1  == IF n # NULL THEN Chk(c, n) ELSE c
       IN  IF c1.fault # "none" THEN c1
           ELSE F_unset_usedb(IF F_can_coalesce(s, blk)
                              THEN F_coalesce(s, blk) ELSE s, blk)

F_PayloadWords(m, p) ==
  {a \in DOMAIN m :
     a >= p /\ a < p + (m[F_block_header(p)] - (m[F_block_header(p)] % W))}

\* ================================================= segregated_free_list.c
\* sizeof(BlockHdr): size, next, used (an int, padded to a word).
S_HDR == 3 * W
S_NEXT == W
S_USED == 2 * W
\* TRUE and FALSE of the source.
S_TRUE == 7
S_FALSE == 0
\* Lower bounds of the size classes, in words.
TINY == 1
SMALL == 16
MID == 32
BIG == 64
HUGE == 128
TINY_IDX == 0
SMALL_IDX == 1
MID_IDX == 2
BIG_IDX == 3
HUGE_IDX == 4

S_hdr(ptr) == ToU(ptr - S_HDR)

\* bucket_idx with a class starting one word above its bound.
S_bucket_idx_Above(size) ==
  LET words == ToU(size) \div W
  IN  IF words > HUGE THEN HUGE_IDX
      ELSE IF words > BIG THEN BIG_IDX
      ELSE IF words > MID THEN MID_IDX
      ELSE IF words > SMALL THEN SMALL_IDX
      ELSE 0

S_bucket_idx(size) ==
  LET words == ToU(size) \div W
  IN  IF words >= HUGE THEN HUGE_IDX
      ELSE IF words >= BIG THEN BIG_IDX
      ELSE IF words >= MID THEN MID_IDX
      ELSE IF words >= SMALL THEN SMALL_IDX
      ELSE IF words >= TINY THEN TINY_IDX
      ELSE 0

RECURSIVE S_find_loop(_, _, _, _, _)
S_find_loop(s, size, blk, best, seen) ==
  IF blk = NULL THEN [blk |-> best, fault |-> "none"]
  ELSE IF ~Acc(s, blk) \/ ~Acc(s, blk + S_USED)
  THEN [blk |-> NULL, fault |-> "segv"]
  ELSE IF blk \in seen THEN [blk |-> NULL, fault |-> "hang"]
  ELSE S_find_loop(s, size, Ld(s, blk + S_NEXT),
         IF Ld(s, blk + S_USED) = S_FALSE /\ ToU(Ld(s, blk)) >= ToU(size)
            /\ (best = NULL \/ ToU(Ld(s, blk)) < ToU(Ld(s, best)))
         THEN blk ELSE best,
         seen \cup {blk})

\* find_block going on to the next larger class when its own has no fit.
S_find_block_Upward(s, size) ==
  LET idx == S_bucket_idx(size)
      own == S_find_loop(s, size, s.global_buckets[idx], NULL, {})
  IN  IF own.blk # NULL \/ own.fault # "none" \/ idx = HUGE_IDX THEN own
      ELSE S_find_loop(s, size, s.global_buckets[idx + 1], NULL, {})

S_find_block(s, size) ==
  S_find_loop(s, size, s.global_buckets[S_bucket_idx(size)], NULL, {})

\* The state after request_block_from_os; the block is S_request_blk.
S_request_block_from_os(s, size) ==
  Sbrk(IF s.heap_base_addr = NULL THEN [s EXCEPT !.heap_base_addr = s.brk]
       ELSE s,
       ToS(S_HDR + size))

S_request_blk(s, size) ==
  IF SbrkFails(s, ToS(S_HDR + size)) THEN NULL ELSE s.brk

S_align(size) == ToU((ToU(size) + (W - 1)) - ((ToU(size) + (W - 1)) % W))

\* alloc: the state afterwards (field ret holds the returned pointer).
S_alloc(s, ssize) ==
  IF ssize <= 0 THEN [s |-> s, ret |-> NULL]
  ELSE
    LET size  == S_align(ToU(ssize))
        found == S_find_block(s, size)
    IN  IF found.fault # "none"
        THEN [s |-> Fail(s, found.fault), ret |-> NULL]
        ELSE IF found.blk # NULL
        THEN [s |-> St(s, found.blk + S_USED, S_TRUE),
              ret |-> ToU(found.blk + S_HDR)]
        ELSE LET blk == S_request_blk(s, size)
                 s1  == S_request_block_from_os(s, size)
                 s2  == St(St(s1, blk, size), blk + S_USED, S_TRUE)
                 idx == S_bucket_idx(Ld(s2, blk))
                 s3  == St(s2, blk + S_NEXT, s2.global_buckets[idx])
             IN  [s |-> IF s3.fault # "none" THEN s3
                        ELSE [s3 EXCEPT !.global_buckets[idx] = blk],
                  ret |-> ToU(blk + S_HDR)]

\* wfree without the test for NULL.
S_wfree_NoNullTest(s, ptr) == St(s, S_hdr(ptr) + S_USED, S_FALSE)

S_wfree(s, ptr) ==
  IF ptr = NULL THEN s ELSE St(s, S_hdr(ptr) + S_USED, S_FALSE)

S_PayloadWords(m, p) == {a \in DOMAIN m : a >= p /\ a < p + m[S_hdr(p)]}

\* ------------------------------------------------------------- the caller
\* Sizes the caller asks alloc for, per program.
E_AllocSizes == {-1, 0, 8, 12, 56, PtrdiffMax}
F_AllocSizes == {-1, 0, 8, 20, PtrdiffMax}
S_AllocSizes == {-1, 0, 8, 12, 128, PtrdiffMax}
\* Sizes the caller asks realloc for.
ReallocSizes == {8, 24, PtrdiffMax}
\* Arguments (count, element size) the caller passes to calloc.
CallocArgs == {<<2, W>>, <<1, 2 * W>>, <<0, W>>}

\* The caller's payload pointers, as a bag.
Held == DOMAIN live
Take(l, p) ==
  IF p \in DOMAIN l THEN [l EXCEPT ![p] = @ + 1]
  ELSE [x \in DOMAIN l \cup {p} |-> IF x = p THEN 1 ELSE l[x]]
Give(l, p) ==
  IF p \notin DOMAIN l THEN l
  ELSE IF l[p] > 1 THEN [l EXCEPT ![p] = @ - 1]
  ELSE [x \in DOMAIN l \ {p} |-> l[x]]

Install(s) ==
  /\ mem' = s.mem
  /\ brk' = s.brk
  /\ fault' = s.fault
  /\ global_free_list' = s.global_free_list
  /\ init' = s.init
  /\ free_list_start' = s.free_list_start
  /\ free_list_top' = s.free_list_top
  /\ global_buckets' = s.global_buckets
  /\ heap_base_addr' = s.heap_base_addr
  /\ next_fit_start' = s.next_fit_start

Running(b) == build = b /\ fault = "none" /\ calls < MaxCalls

Count == calls' = calls + 1 /\ UNCHANGED <<build, SEARCH_MODE>>

Call(op, n, m, p, r) ==
  [op |-> op, n |-> n, m |-> m, p |-> p,
   ret |-> IF r.s.fault = "none" THEN r.ret ELSE NULL, oom |-> r.s.oom]

\* A call that returns a payload (or NULL) to the caller.
Returns(op, n, m, p, r) ==
  /\ Install(r.s)
  /\ last' = Call(op, n, m, p, r)
  /\ Count

Got(r) == r.s.fault = "none" /\ r.ret # NULL

\* The caller writes Pattern over the payload words W of a block it holds.
Fill(p, words) ==
  /\ \E a \in words : mem[a] # Pattern
  /\ mem' = [a \in DOMAIN mem |-> IF a \in words THEN Pattern ELSE mem[a]]
  /\ last' = [op |-> "write", n |-> 0, m |-> 0, p |-> p, ret |-> NULL,
              oom |-> FALSE]
  /\ Count
  /\ UNCHANGED <<brk, fault, live, global_free_list, init, free_list_start,
                 free_list_top, global_buckets, heap_base_addr,
                 next_fit_start>>

\* ------------------------------------------- explicit_free_list.c, calls
EAlloc(n) ==
  /\ Running("explicit")
  /\ \E r \in {E_alloc(Machine(FALSE), n)} :
       /\ Returns("alloc", n, 0, NULL, r)
       /\ live' = IF Got(r) THEN Take(live, r.ret) ELSE live

EFree(p) ==
  /\ Running("explicit")
  /\ \E r \in {[s |-> E_wfree(Machine(FALSE), p), ret |-> NULL]} :
       Returns("free", 0, 0, p, r)
  /\ live' = Give(live, p)

ERealloc(p, n) ==
  /\ Running("explicit")
  /\ \E r \in {E_realloc(Machine(FALSE), p, n)} :
       /\ Returns("realloc", n, 0, p, r)
       /\ live' = IF Got(r) /\ r.ret # p
                  THEN Take(Give(live, p), r.ret) ELSE live

ECalloc(n, size, traps) ==
  /\ Running("explicit")
  /\ \E r \in {E_calloc(Machine(FALSE), n, size, traps)} :
       /\ Returns("calloc", n, size, NULL, r)
       /\ live' = IF Got(r) THEN Take(live, r.ret) ELSE live

EWrite(p) ==
  /\ Running("explicit")
  /\ Fill(p, E_PayloadWords(mem, p))

\* ---------------------------------------------------- free_list1.c, calls
FAlloc(n) ==
  /\ Running("free_list1")
  /\ \E r \in {F_alloc(Machine(FALSE), n)} :
       /\ Returns("alloc", n, 0, NULL, r)
       /\ live' = IF Got(r) THEN Take(live, r.ret) ELSE live

FFree(p, mapped) ==
  /\ Running("free_list1")
  /\ \E r \in {[s |-> F_free_(Machine(mapped), p), ret |-> NULL]} :
       Returns("free", 0, 0, p, r)
  /\ live' = Give(live, p)

FWrite(p) ==
  /\ Running("free_list1")
  /\ Fill(p, F_PayloadWords(mem, p))

\* ----------------------------------------- segregated_free_list.c, calls
SAlloc(n) ==
  /\ Running("segregated")
  /\ \E r \in {S_alloc(Machine(FALSE), n)} :
       /\ Returns("alloc", n, 0, NULL, r)
       /\ live' = IF Got(r) THEN Take(live, r.ret) ELSE live

SFree(p) ==
  /\ Running("segregated")
  /\ \E r \in {[s |-> S_wfree(Machine(FALSE), p), ret |-> NULL]} :
       Returns("free", 0, 0, p, r)
  /\ live' = Give(live, p)

SWrite(p) ==
  /\ Running("segregated")
  /\ Fill(p, S_PayloadWords(mem, p))

\* ---------------------------------------------------------- specifications
InitState ==
  /\ mem = [a \in HeapAddrs(build) |-> 0]
  /\ brk = HeapBase
  /\ fault = "none"
  /\ live = <<>>
  /\ calls = 0
  /\ last = [op |-> "none", n |-> 0, m |-> 0, p |-> NULL, ret |-> NULL,
             oom |-> FALSE]
  /\ global_free_list = NULL
  /\ init = NULL
  /\ free_list_start = NULL
  /\ free_list_top = NULL
  /\ global_buckets = [i \in 0..4 |-> NULL]
  /\ heap_base_addr = NULL
  /\ next_fit_start = NULL

\* The builds of the repository take the default search, BEST_FIT.
InitCommon == SEARCH_MODE = BEST_FIT /\ InitState

InitE == build = "explicit" /\ InitCommon
InitF == build = "free_list1" /\ InitCommon
InitS == build = "segregated" /\ InitCommon

NextE ==
  \/ \E n \in E_AllocSizes : EAlloc(n)
  \/ \E p \in Held \cup {NULL} : EFree(p)
  \/ \E p \in Held : EWrite(p)

ApiRunning == calls < MaxApiCalls

NextEM ==
  \/ \E n \in E_AllocSizes : ApiRunning /\ EAlloc(n)
  \/ \E p \in Held \cup {NULL} : ApiRunning /\ EFree(p)
  \/ \E p \in Held : ApiRunning /\ EWrite(p)
  \/ \E p \in Held \cup {NULL}, n \in ReallocSizes :
       ApiRunning /\ ERealloc(p, n)
  \/ \E a \in CallocArgs, traps \in BOOLEAN :
       ApiRunning /\ ECalloc(a[1], a[2], traps)

NextF ==
  \/ \E n \in F_AllocSizes : FAlloc(n)
  \/ \E p \in Held \cup {NULL}, mapped \in BOOLEAN : FFree(p, mapped)
  \/ \E p \in Held : FWrite(p)

\* free_list1 compiled with SEARCH_MODE set to NEXT_FIT.
InitN == build = "free_list1" /\ SEARCH_MODE = NEXT_FIT /\ InitState

\* Its caller also asks for more than any block of the arena has.
N_AllocSizes == {0, 8, 20, 56}

NextN ==
  \/ \E n \in N_AllocSizes : FAlloc(n)
  \/ \E p \in Held \cup {NULL}, mapped \in BOOLEAN : FFree(p, mapped)
  \/ \E p \in Held : FWrite(p)

NextS ==
  \/ \E n \in S_AllocSizes : SAlloc(n)
  \/ \E p \in Held \cup {NULL} : SFree(p)
  \/ \E p \in Held : SWrite(p)

\* The explicit free list allocator, called through alloc and wfree.
SpecE == InitE /\ [][NextE]_vars
\* The explicit free list allocator, called through its whole interface.
SpecEM == InitE /\ [][NextEM]_vars
\* The free_list1 allocator.
SpecF == InitF /\ [][NextF]_vars
\* The free_list1 allocator searching with next fit.
SpecN == InitN /\ [][NextN]_vars
\* The segregated free list allocator.
NextSShort ==
  \/ \E n \in S_AllocSizes : ApiRunning /\ SAlloc(n)
  \/ \E p \in Held \cup {NULL} : ApiRunning /\ SFree(p)
  \/ \E p \in Held : ApiRunning /\ SWrite(p)

SpecSShort == InitS /\ [][NextSShort]_vars
SpecS == InitS /\ [][NextS]_vars

\* ------------------------------------------------------------- reset_heap
\* brk(addr): the break moves to addr.  The words the kernel takes back
\* read as zero if they are handed out again (fresh), or keep their bytes
\* when they stay on a page the process still owns.
Brk(s, addr, fresh) ==
  [s EXCEPT !.brk = addr,
            !.mem = IF fresh
                    THEN [a \in DOMAIN s.mem |->
                            IF a >= addr THEN 0 ELSE s.mem[a]]
                    ELSE s.mem]

\* reset_heap that forgets to empty the free list.
E_reset_heap_KeepsList(s, fresh) ==
  LET s1 == IF s.init # NULL THEN Brk(s, s.init, fresh) ELSE s
  IN  [s1 EXCEPT !.init = NULL]

E_reset_heap(s, fresh) ==
  LET s1 == IF s.init # NULL THEN Brk(s, s.init, fresh) ELSE s
  IN  [s1 EXCEPT !.init = NULL, !.global_free_list = NULL]

F_reset_heap(s, fresh) ==
  IF s.free_list_start = NULL THEN s
  ELSE [Brk(s, s.free_list_start, fresh) EXCEPT !.next_fit_start = NULL,
                                                !.free_list_top = NULL,
                                                !.free_list_start = NULL]

S_reset_heap(s, fresh) ==
  IF s.heap_base_addr # NULL
  THEN [Brk(s, s.heap_base_addr, fresh) EXCEPT
          !.heap_base_addr = NULL,
          !.global_buckets = [i \in 0..4 |-> NULL]]
  ELSE s

\* reset_heap() in the program that runs.
reset_heap(s, fresh) ==
  CASE build = "explicit" -> E_reset_heap(s, fresh)
    [] build = "free_list1" -> F_reset_heap(s, fresh)
    [] OTHER -> S_reset_heap(s, fresh)

\* The caller resets the heap; every payload pointer it held is gone.
Reset(fresh) ==
  /\ fault = "none" /\ calls < MaxCalls
  /\ \E r \in {[s |-> reset_heap(Machine(FALSE), fresh), ret |-> NULL]} :
       Returns("reset", 0, 0, NULL, r)
  /\ live' = <<>>

\* ------------------------------------------------- calloc, large requests
\* Factors the caller passes to calloc: small ones, the ones around the
\* bound of the quick test, and the ones around the largest size_t.
CallocFactors ==
  {0, 1, 2, W, CallocSmall, CallocSmall + 1, (Mod \div W) - 1, Mod \div W,
   PtrdiffMax, SizeMax}

CallocRunning == calls < MaxCallocCalls

NextC ==
  \/ \E n \in CallocFactors, size \in CallocFactors, traps \in BOOLEAN :
       CallocRunning /\ ECalloc(n, size, traps)
  \/ \E p \in Held : CallocRunning /\ EFree(p)

\* The explicit free list allocator, called through calloc and free.
SpecC == InitE /\ [][NextC]_vars

\* ------------------------------------------- the three programs, complete
SpecRunning == calls < MaxSpecCalls

Init == build \in {"explicit", "free_list1", "segregated"} /\ InitCommon

Next ==
  \/ \E n \in E_AllocSizes : SpecRunning /\ EAlloc(n)
  \/ \E p \in Held \cup {NULL} : SpecRunning /\ EFree(p)
  \/ \E p \in Held : SpecRunning /\ EWrite(p)
  \/ \E p \in Held \cup {NULL}, n \in ReallocSizes :
       SpecRunning /\ ERealloc(p, n)
  \/ \E a \in CallocArgs, traps \in BOOLEAN :
       SpecRunning /\ ECalloc(a[1], a[2], traps)
  \/ \E n \in F_AllocSizes : SpecRunning /\ FAlloc(n)
  \/ \E p \in Held \cup {NULL}, mapped \in BOOLEAN :
       SpecRunning /\ FFree(p, mapped)
  \/ \E p \in Held : SpecRunning /\ FWrite(p)
  \/ \E n \in S_AllocSizes : SpecRunning /\ SAlloc(n)
  \/ \E p \in Held \cup {NULL} : SpecRunning /\ SFree(p)
  \/ \E p \in Held : SpecRunning /\ SWrite(p)
  \/ \E fresh \in BOOLEAN : SpecRunning /\ Reset(fresh)

\* Any of the three programs, called through all it offers.
Spec == Init /\ [][Next]_vars

\* Any of the three programs, called through alloc and free only.
NextAF == NextE \/ NextF \/ NextS

SpecAF == Init /\ [][NextAF]_vars

\* ------------------------------------------------- notions the claims use
Returned == fault = "none" /\ last.ret # NULL

\* Words of the arena in [b, b + len).
Span(b, len) == {a \in DOMAIN mem : a >= b /\ a < b + len}

\* explicit: the blocks reachable from global_free_list through prev.
RECURSIVE E_Reach(_, _, _)
E_Reach(m, blk, seen) ==
  IF blk = NULL \/ blk \in seen \/ (blk + E_PREV) \notin DOMAIN m THEN seen
  ELSE E_Reach(m, m[blk + E_PREV], seen \cup {blk})

E_FreeList == E_Reach(mem, global_free_list, {})

\* explicit and segregated: the blocks found by walking the arena from its
\* base, each block ending where the next begins.
RECURSIVE AddrWalk(_, _, _, _)
AddrWalk(m, hdr, blk, seen) ==
  IF blk \notin DOMAIN m \/ blk >= brk \/ blk \in seen \/ m[blk] <= 0 THEN seen
  ELSE AddrWalk(m, hdr, blk + hdr + m[blk], seen \cup {blk})

E_Blocks == AddrWalk(mem, E_HDR, HeapBase, {})
S_Blocks == AddrWalk(mem, S_HDR, HeapBase, {})

\* segregated: the blocks reachable from bucket i through next.
RECURSIVE S_Reach(_, _, _)
S_Reach(m, blk, seen) ==
  IF blk = NULL \/ blk \in seen \/ (blk + S_NEXT) \notin DOMAIN m THEN seen
  ELSE S_Reach(m, m[blk + S_NEXT], seen \cup {blk})

S_Bucket(i) == S_Reach(mem, global_buckets[i], {})

\* free_list1: size, used flag and address-order successor of a block, and
\* the blocks reached by walking nextb from free_list_start.
F_Size(m, blk) == m[blk] - (m[blk] % W)
F_Used(m, blk) == Bit(m[blk], 0) = 1
F_Next(m, blk) == IF Bit(m[blk], 1) = 0 THEN NULL ELSE blk + F_Size(m, blk) + F_HDR

RECURSIVE F_Reach(_, _, _)
F_Reach(m, blk, seen) ==
  IF blk = NULL \/ blk \in seen \/ blk \notin DOMAIN m THEN seen
  ELSE F_Reach(m, F_Next(m, blk), seen \cup {blk})

F_Chain == F_Reach(mem, free_list_start, {})

RECURSIVE SumOver(_, _)
SumOver(S, f) ==
  IF S = {} THEN 0
  ELSE LET x == CHOOSE y \in S : TRUE IN f[x] + SumOver(S \ {x}, f)

\* The blocks B, block b spanning len[b] bytes, tile the arena [base, brk).
Tiles(B, len, base) ==
  /\ SumOver(B, len) = brk - base
  /\ \A b \in B : b >= base /\ b + len[b] <= brk
  /\ \A b, c \in B : b # c => Span(b, len[b]) \cap Span(c, len[c]) = {}

\* ------------------------------------------------------------------ claims
\* C1: exclusive ownership (explicit variant): the payloads the caller
\* holds are pairwise disjoint, and no payload is handed out while it is
\* still held.
C1_ExclusiveOwnership ==
  (build = "explicit" /\ fault = "none") =>
    /\ \A p \in Held : live[p] = 1
    /\ \A p, q \in Held :
         p # q => E_PayloadWords(mem, p) \cap E_PayloadWords(mem, q) = {}

\* C2: whenever a call has returned, every free block is reachable from
\* exactly one Index head and every block the caller holds from none.
C2_IndexMatchesLiveness ==
  /\ (build = "explicit" /\ fault = "none") =>
       \A b \in E_Blocks :
         IF E_user_mem(b) \in Held THEN b \notin E_FreeList
         ELSE b \in E_FreeList
  /\ (build = "segregated" /\ fault = "none") =>
       \A b \in S_Blocks :
         IF (b + S_HDR) \in Held
         THEN \A i \in 0..4 : b \notin S_Bucket(i)
         ELSE Cardinality({i \in 0..4 : b \in S_Bucket(i)}) = 1

\* C3: right after a free call returns, no free block is followed in
\* address order by another free block (variants with coalescing).
C3_NoAdjacentFreeBlocks ==
  (last.op = "free" /\ fault = "none") =>
    /\ build = "explicit" =>
         \A b \in E_FreeList : (b + E_HDR + mem[b]) \notin E_FreeList
    /\ build = "free_list1" =>
         \A b \in F_Chain :
           ~(~F_Used(mem, b) /\ F_Next(mem, b) # NULL
             /\ F_Next(mem, b) \in DOMAIN mem /\ ~F_Used(mem, F_Next(mem, b)))

\* explicit: the live allocations plus the free blocks, and the bytes each
\* spans; free_list1: the bytes each block of the chain spans.
E_HeldAndFree == {E_mem_hdr(p) : p \in Held} \cup E_FreeList
E_SpanLen == [b \in E_HeldAndFree |-> E_HDR + mem[b]]
F_SpanLen == [b \in F_Chain |-> F_HDR + F_Size(mem, b)]

\* C4: the blocks tile the arena: their spans add up to
\* current_break - initial_break, without overlap or gap.
C4_NoGaps ==
  /\ (build = "explicit" /\ fault = "none") =>
       Tiles(E_HeldAndFree, E_SpanLen, HeapBase)
  /\ (build = "free_list1" /\ fault = "none") =>
       Tiles(F_Chain, F_SpanLen, HeapBase)

\* C5: when no free block fits and sbrk refuses to grow, alloc returns
\* null and leaves the break, the memory, the Index heads and the recorded
\* initial break as they were; nothing is written through the failed result.
C5_OutOfMemoryLeavesState ==
  [][(last'.op = "alloc" /\ last'.oom /\ calls' # calls) =>
       /\ fault' = "none"
       /\ last'.ret = NULL
       /\ UNCHANGED <<mem, brk, global_free_list, init, free_list_start,
                      free_list_top, global_buckets, heap_base_addr>>]_vars

\* C6: a non-null result of alloc(n), n > 0, designates a block of at least
\* align(n) and at least n bytes (explicit variant).
C6_SufficientSize ==
  (build = "explicit" /\ last.op = "alloc" /\ last.n > 0 /\ Returned) =>
    /\ mem[E_mem_hdr(last.ret)] >= E_align(last.n)
    /\ mem[E_mem_hdr(last.ret)] >= last.n

\* C7: a non-null result of calloc(count, elem_size) has count * elem_size
\* zero bytes.
C7_CallocZeroes ==
  (last.op = "calloc" /\ Returned) =>
    \A a \in Span(last.ret, last.n * last.m) : mem[a] = 0

\* What a growing realloc(p, n) that returned q has to have done.
C8_Growth(p, n, q) ==
  LET old == mem[E_mem_hdr(p)]
      fl  == E_Reach(mem', global_free_list', {})
  IN  /\ q \in DOMAIN live' /\ live'[q] = 1
      /\ mem'[E_mem_hdr(q)] >= n
      /\ \A a \in Span(p, old) : mem'[q + (a - p)] = mem[a]
      /\ p \notin DOMAIN live'
      /\ \E b \in fl : /\ b <= E_mem_hdr(p)
                       /\ p + old <= b + E_HDR + mem'[b]
      /\ \A r \in DOMAIN live' \ {q} :
           E_PayloadWords(mem', q) \cap E_PayloadWords(mem', r) = {}

\* C8: a successful realloc(p, n) of a held payload p whose block is
\* smaller than n returns a held payload q of at least n bytes that starts
\* with the old contents of p, leaves the old block inside a block of the
\* free list, and overlaps no other held payload.
C8_ReallocGrowth ==
  [][(/\ build = "explicit" /\ last'.op = "realloc" /\ calls' # calls
      /\ last'.p # NULL /\ ToU(mem[E_mem_hdr(last'.p)]) < last'.n
      /\ fault' = "none" /\ last'.ret # NULL)
     => C8_Growth(last'.p, last'.n, last'.ret)]_vars

\* p = alloc(n), free(p), alloc(n), run from the current state.
E_RoundTrip(n) ==
  LET r1 == E_alloc(Machine(FALSE), n)
      s2 == E_wfree(r1.s, r1.ret)
      r3 == E_alloc(s2, n)
      fl == E_Reach(s2.mem, s2.global_free_list, {})
  IN  (Got(r1) /\ s2.fault = "none") =>
        /\ Got(r3)
        /\ \E b \in fl :
             /\ b <= E_mem_hdr(r1.ret)
             /\ E_mem_hdr(r1.ret) < b + E_HDR + s2.mem[b]
             /\ r3.ret >= b + E_HDR
             /\ r3.ret < b + E_HDR + s2.mem[b]

F_RoundTrip(n, mapped) ==
  LET r1 == F_alloc(Machine(mapped), n)
      s2 == F_free_(r1.s, r1.ret)
      r3 == F_alloc(s2, n)
  IN  (Got(r1) /\ s2.fault = "none") =>
        /\ Got(r3)
        /\ r3.ret >= r1.ret
        /\ r3.ret < r1.ret + F_Size(s2.mem, F_block_header(r1.ret))

S_RoundTrip(n) ==
  LET r1 == S_alloc(Machine(FALSE), n)
      s2 == S_wfree(r1.s, r1.ret)
      r3 == S_alloc(s2, n)
  IN  (Got(r1) /\ s2.fault = "none") => (Got(r3) /\ r3.ret = r1.ret)

\* C9: in every reachable state, p = alloc(n), free(p), alloc(n) yields p
\* again in the segregated variant and a payload inside the free block
\* that holds the freed block in the variants that split.
C9_AllocFreeReuse ==
  fault = "none" =>
    /\ build = "explicit" => \A n \in E_AllocSizes : E_RoundTrip(n)
    /\ build = "free_list1" =>
         \A n \in F_AllocSizes, mapped \in BOOLEAN : F_RoundTrip(n, mapped)
    /\ build = "segregated" => \A n \in S_AllocSizes : S_RoundTrip(n)

\* The payload words of the block behind p, in the variant that runs.
PayloadWords(m, p) ==
  CASE build = "explicit" -> E_PayloadWords(m, p)
    [] build = "free_list1" -> F_PayloadWords(m, p)
    [] OTHER -> S_PayloadWords(m, p)

\* C10: a call of alloc or free on other pointers changes no byte of a
\* payload the caller holds before and after the call.
C10_LivePayloadUntouched ==
  [][(last'.op \in {"alloc", "free"} /\ calls' # calls) =>
       \A p \in (DOMAIN live) \cap (DOMAIN live') :
         p # last'.p =>
           \A a \in PayloadWords(mem, p) : mem'[a] = mem[a]]_vars

\* The initial break the running program has recorded, NULL before the
\* first growth.
RecordedBase ==
  CASE build = "explicit" -> init
    [] build = "free_list1" -> free_list_start
    [] OTHER -> heap_base_addr

\* Every Index head and cursor is empty and nothing is recorded.
Uninitialised ==
  /\ global_free_list = NULL /\ init = NULL
  /\ free_list_start = NULL /\ free_list_top = NULL
  /\ heap_base_addr = NULL /\ \A i \in 0..4 : global_buckets[i] = NULL

\* alloc(n) of the running program, and the sizes its caller asks for.
alloc(s, n) ==
  CASE build = "explicit" -> E_alloc(s, n)
    [] build = "free_list1" -> F_alloc(s, n)
    [] OTHER -> S_alloc(s, n)

AllocSizes ==
  CASE build = "explicit" -> E_AllocSizes
    [] build = "free_list1" -> F_AllocSizes
    [] OTHER -> S_AllocSizes

\* The payload address of the first block of the arena.
FirstPayload ==
  HeapBase + (CASE build = "explicit" -> E_HDR
                [] build = "free_list1" -> F_HDR
                [] OTHER -> S_HDR)

\* C11: reset_heap() after a growth puts the break back to the initial
\* break recorded on the first growth, empties every Index head and cursor
\* and forgets the recorded break, so that the next successful alloc(n)
\* returns the payload address of the very first allocation; reset_heap()
\* before any growth changes nothing.
C11_Reset ==
  [][/\ (/\ last'.op = "alloc" /\ calls' # calls /\ RecordedBase = NULL
         /\ fault' = "none" /\ last'.ret # NULL) => last'.ret = FirstPayload
     /\ (last'.op = "reset" /\ calls' # calls) =>
       /\ fault' = "none"
       /\ RecordedBase # NULL =>
            /\ RecordedBase = HeapBase
            /\ brk' = RecordedBase
            /\ Uninitialised'
            /\ \A n \in AllocSizes :
                 \A r \in {alloc(Machine(FALSE)', n)} :
                   Got(r) => r.ret = FirstPayload
       /\ RecordedBase = NULL =>
            UNCHANGED <<mem, brk, global_free_list, init, free_list_start,
                        free_list_top, global_buckets, heap_base_addr>>]_vars

\* A reset that followed a growth: the break is back at the start of the
\* arena, whose first word still holds the header of the first block.
C11_Witness ==
  /\ last.op = "reset" /\ brk = HeapBase /\ mem[HeapBase] # 0
  /\ Uninitialised

\* C12: alloc(n) with n <= 0 returns null and changes neither the break, nor
\* any word of the arena, nor any Index head, in each of the programs.
C12_InvalidSize ==
  [][(last'.op = "alloc" /\ calls' # calls /\ last'.n <= 0) =>
       /\ fault' = "none"
       /\ last'.ret = NULL
       /\ UNCHANGED <<mem, brk, live, global_free_list, init, free_list_start,
                      free_list_top, global_buckets, heap_base_addr>>]_vars

\* alloc(0) was called on a heap that holds blocks.
C12_Witness ==
  last.op = "alloc" /\ last.n = 0 /\ brk > HeapBase /\ fault = "none"

\* C13: realloc(p, n) of a held payload p with n <= size(block(p)) returns
\* p and leaves the memory (block size and payload included), the free
\* list and the break unchanged; realloc(NULL, n) does what malloc(n) does.
C13_ReallocInPlace ==
  [][(build = "explicit" /\ last'.op = "realloc" /\ calls' # calls) =>
       /\ (/\ last'.p \in Held
            /\ last'.n <= mem[E_mem_hdr(last'.p)]) =>
              /\ fault' = "none"
              /\ last'.ret = last'.p
              /\ UNCHANGED <<mem, brk, live, global_free_list, init>>
       /\ last'.p = NULL =>
            \A r \in {E_malloc(Machine(FALSE), last'.n)} :
              /\ mem' = r.s.mem /\ brk' = r.s.brk /\ fault' = r.s.fault
              /\ global_free_list' = r.s.global_free_list
              /\ init' = r.s.init
              /\ last'.ret = IF r.s.fault = "none" THEN r.ret ELSE NULL]_vars

\* realloc was asked for less than the block of a held payload has.
C13_Witness ==
  /\ build = "explicit" /\ last.op = "realloc" /\ fault = "none"
  /\ last.p \in Held /\ last.ret = last.p
  /\ last.n < mem[E_mem_hdr(last.p)]

\* C14: calloc(count, elem_size) with count > 0 whose product exceeds the
\* largest size_t is rejected: it returns null and changes nothing; a
\* product that fits is not rejected by the overflow test.
C14_OverflowGuard ==
  [][(last'.op = "calloc" /\ calls' # calls /\ last'.n > 0) =>
       IF last'.n * last'.m > SizeMax
       THEN /\ E_calloc_rejects(last'.n, last'.m)
            /\ fault' = "none" /\ last'.ret = NULL
            /\ UNCHANGED <<mem, brk, live, global_free_list, init>>
       ELSE ~E_calloc_rejects(last'.n, last'.m)]_vars

\* calloc was called with factors whose product is the first that does
\* not fit, on a heap that holds a block.
C14_Witness ==
  /\ last.op = "calloc" /\ last.n > 1 /\ last.m > 1
  /\ last.n * last.m = SizeMax + 1 /\ brk > HeapBase

\* The blocks of the running program: the ones behind the payloads the
\* caller holds and the ones its Index reaches.
E_Known == {E_mem_hdr(p) : p \in Held} \cup E_FreeList
F_Known == {F_block_header(p) : p \in Held} \cup F_Chain
S_Known == {p - S_HDR : p \in Held} \cup UNION {S_Bucket(i) : i \in 0..4}

\* C15: with a word-aligned initial break, every payload pointer alloc
\* returns is a multiple of W, and so is every block size stored in a
\* header, after any sequence of alloc and free calls.
C15_Aligned ==
  fault = "none" =>
    /\ (last.op = "alloc" /\ last.ret # NULL) => last.ret % W = 0
    /\ \A p \in Held : p % W = 0
    /\ build = "explicit" =>
         \A b \in E_Known : b \in DOMAIN mem => mem[b] % W = 0
    /\ build = "free_list1" =>
         \A b \in F_Known : b \in DOMAIN mem => F_sizeb(Machine(FALSE), b) % W = 0
    /\ build = "segregated" =>
         \A b \in S_Known : b \in DOMAIN mem => mem[b] % W = 0

\* alloc(n), n not a multiple of W, reused the head of a free block it
\* split: the tail is the free block right after the returned one.
C15_Witness ==
  /\ build = "explicit" /\ fault = "none"
  /\ last.op = "alloc" /\ last.ret # NULL /\ last.n % W # 0
  /\ last.ret < global_free_list
  /\ last.ret + mem[E_mem_hdr(last.ret)] = global_free_list

\* align of the running program.
align(n) ==
  CASE build = "explicit" -> E_align(n)
    [] build = "free_list1" -> F_align(n)
    [] OTHER -> S_align(n)

\* C16: for every n > 0 of the size type that alloc hands to align,
\* align(n) is a multiple of W with n <= align(n) < n + W; align(0) = 0.
C16_Align ==
  /\ align(0) = 0
  /\ (last.op = "alloc" /\ last.n > 0) =>
       /\ align(last.n) % W = 0
       /\ last.n <= align(last.n)
       /\ align(last.n) < last.n + W

\* C17: in each program, freeing a null pointer changes no word of the
\* arena (so no block header), no Index head and not the break.
C17_FreeNull ==
  [][(last'.op = "free" /\ calls' # calls /\ last'.p = NULL) =>
       /\ fault' = "none"
       /\ UNCHANGED <<mem, brk, live, global_free_list, init, free_list_start,
                      free_list_top, global_buckets, heap_base_addr>>]_vars

\* A null pointer was freed while the caller held a payload and the heap
\* had a free block as well.
C17_Witness ==
  /\ last.op = "free" /\ last.p = NULL /\ fault = "none"
  /\ build = "segregated" /\ Held # {}
  /\ \E b \in S_Known : (b + S_HDR) \notin Held

\* free_list1: this step is an alloc that reused the free block b of the
\* chain and split it.
F_SplitStep(b) ==
  /\ build = "free_list1" /\ last'.op = "alloc" /\ calls' # calls
  /\ fault' = "none" /\ last'.ret = b + F_HDR
  /\ b \in F_Chain /\ ~F_Used(mem, b)
  /\ F_Size(mem', b) < F_Size(mem, b)

\* C18: when alloc of free_list1 reuses and splits a free block, the head
\* is followed in address order by the tail and the tail by the head's
\* former successor (the tail is terminal, and the head is not, if the
\* original block was terminal), and the tail is reached from
\* free_list_start.
C18_SplitKeepsChain ==
  [][\A b \in DOMAIN mem :
       F_SplitStep(b) =>
         LET tail == b + F_HDR + F_Size(mem', b)
         IN  /\ F_Next(mem', b) = tail
             /\ F_Next(mem', tail) = F_Next(mem, b)
             /\ tail \in F_Reach(mem', free_list_start', {})]_vars

\* free_list1: this step is a free_ of the held payload of block b of the
\* chain, whose forward neighbour c is free, so that free_ merges them.
F_MergeStep(b, c) ==
  /\ build = "free_list1" /\ last'.op = "free" /\ calls' # calls
  /\ fault' = "none" /\ last'.p = b + F_HDR /\ last'.p \in Held
  /\ b \in F_Chain /\ c = F_Next(mem, b) /\ c \in DOMAIN mem /\ c < brk
  /\ ~F_Used(mem, c)

\* C19: when free_ merges block b with its free forward neighbour c, b
\* gets the size of both plus one header, b is terminal exactly if c was,
\* and if c was not, b is followed by c's former successor, which is still
\* reached from free_list_start.
C19_CoalesceResult ==
  [][\A b, c \in DOMAIN mem :
       F_MergeStep(b, c) =>
         /\ F_Size(mem', b) = F_Size(mem, b) + F_HDR + F_Size(mem, c)
         /\ (F_Next(mem', b) = NULL) <=> (F_Next(mem, c) = NULL)
         /\ F_Next(mem, c) # NULL =>
              /\ F_Next(mem', b) = F_Next(mem, c)
              /\ F_Next(mem, c) \in F_Reach(mem', free_list_start', {})]_vars

\* free_list1: the blocks of the arena, found by their sizes alone: each
\* block ends where the next begins, from free_list_start up to the break.
RECURSIVE F_AddrWalk(_, _, _)
F_AddrWalk(m, blk, seen) ==
  IF blk \notin DOMAIN m \/ blk >= brk \/ blk \in seen THEN seen
  ELSE F_AddrWalk(m, blk + F_HDR + F_Size(m, blk), seen \cup {blk})

F_Blocks == IF free_list_start = NULL THEN {}
            ELSE F_AddrWalk(mem, free_list_start, {})

\* C20: in free_list1, after any sequence of alloc and free_ calls exactly
\* one block is marked terminal; it is the highest block and the one
\* free_list_top points to, and every block is reached by walking nextb
\* from free_list_start.
C20_OneTerminalBlock ==
  (build = "free_list1" /\ fault = "none" /\ F_Blocks # {}) =>
    /\ \A b \in F_Blocks :
         (F_Next(mem, b) = NULL) <=> (\A c \in F_Blocks : c <= b)
    /\ free_list_top \in F_Blocks /\ F_Next(mem, free_list_top) = NULL
    /\ F_Blocks \subseteq F_Chain

\* This step is an alloc that returned the payload of block b, which was a
\* free block of the Index before the call.
E_ReuseStep(b) ==
  /\ build = "explicit" /\ last'.op = "alloc" /\ calls' # calls
  /\ fault' = "none" /\ last'.ret = E_user_mem(b)
  /\ b \in E_FreeList /\ E_user_mem(b) \notin Held

F_ReuseStep(b) ==
  /\ build = "free_list1" /\ last'.op = "alloc" /\ calls' # calls
  /\ fault' = "none" /\ last'.ret = b + F_HDR
  /\ b \in F_Chain /\ ~F_Used(mem, b)

\* C21: a free block of size S reused for the aligned request R is split
\* exactly if S >= R + header_size + W; the returned block then has size
\* R and a free tail of size S - R - header_size starts right behind it
\* and is in the Index; otherwise the block is handed out whole.
C21_SplitRule ==
  [][\A b \in DOMAIN mem :
       /\ E_ReuseStep(b) =>
            LET R == E_align(last'.n)
                S == mem[b]
                t == b + E_HDR + R
            IN  R > 0 =>
                  IF S >= R + E_HDR + W
                  THEN /\ mem'[b] = R
                       /\ mem'[t] = S - R - E_HDR
                       /\ t \in E_Reach(mem', global_free_list', {})
                  ELSE mem'[b] = S
       /\ F_ReuseStep(b) =>
            LET R == F_align(last'.n)
                S == F_Size(mem, b)
                t == b + F_HDR + R
            IN  R > 0 =>
                  IF S >= R + F_HDR + W
                  THEN /\ F_Size(mem', b) = R
                       /\ F_Size(mem', t) = S - R - F_HDR
                       /\ ~F_Used(mem', t)
                       /\ t \in F_Reach(mem', free_list_start', {})
                  ELSE F_Size(mem', b) = S]_vars

\* The blocks a search visits, in the order it visits them: the explicit
\* free list through prev, the free_list1 chain through nextb.
RECURSIVE E_Order(_, _, _)
E_Order(m, blk, sofar) ==
  IF blk = NULL \/ (blk + E_PREV) \notin DOMAIN m
     \/ \E i \in 1..Len(sofar) : sofar[i] = blk
  THEN sofar
  ELSE E_Order(m, m[blk + E_PREV], Append(sofar, blk))

RECURSIVE F_Order(_, _, _)
F_Order(m, blk, sofar) ==
  IF blk = NULL \/ blk \notin DOMAIN m \/ \E i \in 1..Len(sofar) : sofar[i] = blk
  THEN sofar
  ELSE F_Order(m, F_Next(m, blk), Append(sofar, blk))

\* Aligned sizes the searches are asked for.
SearchSizes == {W, 2 * W, 3 * W, 7 * W}

\* found is the best fit for R among the blocks of order that are free,
\* whose sizes are size: none exactly if no free block has R bytes,
\* otherwise the first of the smallest free blocks that have.
BestFit(order, free, size, R, found) ==
  LET fits == {i \in 1..Len(order) : order[i] \in free /\ size[order[i]] >= R}
  IN  IF fits = {} THEN found = NULL
      ELSE \E i \in fits :
             /\ found = order[i]
             /\ \A j \in fits : size[order[i]] <= size[order[j]]
             /\ \A j \in fits : size[order[j]] = size[order[i]] => i <= j

\* C22: for every aligned request R the best-fit search of the explicit
\* and the free_list1 program ends, returns none exactly if no free block
\* has at least R bytes, and otherwise returns the first, in traversal
\* order, of the smallest free blocks with at least R bytes, never a block
\* that is in use.
C22_BestFit ==
  fault = "none" =>
    /\ build = "explicit" =>
         \A R \in SearchSizes :
           \A f \in {E_find_block(Machine(FALSE), R)} :
             /\ f.fault = "none"
             /\ BestFit(E_Order(mem, global_free_list, <<>>), E_FreeList,
                        [b \in E_FreeList |-> mem[b]], R, f.blk)
             /\ f.blk # NULL => E_user_mem(f.blk) \notin Held
    /\ build = "free_list1" =>
         \A R \in SearchSizes :
           \A f \in {F_best_fit(Machine(FALSE), R)} :
             /\ f.fault = "none"
             /\ BestFit(F_Order(mem, free_list_start, <<>>),
                        {b \in F_Chain : ~F_Used(mem, b)},
                        [b \in F_Chain |-> F_Size(mem, b)], R, f.blk)
             /\ f.blk # NULL => (f.blk + F_HDR) \notin Held

\* free_list1, next fit: the cursor is unset or a block of the chain.
CursorOnChain == next_fit_start = NULL \/ next_fit_start \in F_Chain

\* C23: in the build that searches with next fit, every search, whatever
\* size it is asked for, ends (it neither runs forever nor leaves the
\* arena), and the cursor next_fit_start always designates a block of the
\* address-ordered chain, never one that coalescing has absorbed.
C23_NextFitTerminates ==
  (build = "free_list1" /\ SEARCH_MODE = NEXT_FIT /\ fault = "none") =>
    /\ CursorOnChain
    /\ \A R \in SearchSizes \cup {F_align(PtrdiffMax - W)} :
         F_next_fit(Machine(FALSE), R).fault = "none"

\* segregated: the lower bounds of the size classes, in words, and the
\* highest class whose bound a payload of size bytes meets.
ClassBound == [i \in 0..4 |-> IF i = 0 THEN 1 ELSE 2 ^ (i + 3)]
Class(size) ==
  CHOOSE i \in 0..4 :
    /\ size \div W >= ClassBound[i]
    /\ \A j \in 0..4 : size \div W >= ClassBound[j] => j <= i

\* Aligned payload sizes: the smallest, the largest, and the ones just below
\* and at the lower bound of each class.
PayloadSizes ==
  {W * k : k \in {1, SMALL - 1, SMALL, MID - 1, MID, BIG - 1, BIG, HUGE - 1,
                  HUGE, (PtrdiffMax + 1) \div W}}

\* C24: in the segregated program bucket_idx puts every payload size into
\* the highest class whose lower bound (1, 16, 32, 64, 128 words) it meets;
\* an alloc that grows the heap inserts the new block at the head of the
\* bucket of its class and leaves the other buckets alone; every block of
\* bucket i has bucket_idx(size) = i and is in no other bucket; wfree
\* changes nothing but the used flag of its block.
C24_BucketClassification ==
  [][(build = "segregated" /\ fault' = "none") =>
       /\ \A size \in PayloadSizes : S_bucket_idx(size) = Class(size)
       /\ (last'.op = "alloc" /\ last'.ret # NULL /\ brk' > brk) =>
            LET blk == S_hdr(last'.ret)
                i   == Class(mem'[blk])
            IN  /\ global_buckets'[i] = blk
                /\ mem'[blk + S_NEXT] = global_buckets[i]
                /\ \A j \in 0..4 \ {i} :
                     global_buckets'[j] = global_buckets[j]
       /\ \A i \in 0..4 :
            \A b \in S_Reach(mem', global_buckets'[i], {}) :
              /\ S_bucket_idx(mem'[b]) = i
              /\ \A j \in 0..4 \ {i} :
                   b \notin S_Reach(mem', global_buckets'[j], {})
       /\ (last'.op = "free" /\ last'.p # NULL) =>
            /\ mem'[S_hdr(last'.p) + S_USED] = S_FALSE
            /\ \A a \in DOMAIN mem \ {S_hdr(last'.p) + S_USED} :
                 mem'[a] = mem[a]
            /\ UNCHANGED <<brk, global_buckets, heap_base_addr>>]_vars

\* A block of the second class has just been put at the head of its bucket
\* while the first bucket holds a block that was freed.
C24_Witness ==
  /\ build = "segregated" /\ fault = "none"
  /\ last.op = "alloc" /\ last.ret # NULL
  /\ global_buckets[SMALL_IDX] = S_hdr(last.ret)
  /\ \E b \in S_Bucket(TINY_IDX) : mem[b + S_USED] = S_FALSE

\* segregated: the blocks of a bucket in list order, from the head blk.
RECURSIVE S_Order(_, _, _)
S_Order(m, blk, sofar) ==
  IF blk = NULL \/ (blk + S_NEXT) \notin DOMAIN m
     \/ \E i \in 1..Len(sofar) : sofar[i] = blk
  THEN sofar
  ELSE S_Order(m, m[blk + S_NEXT], Append(sofar, blk))

\* C25: an alloc(n) of the segregated program that returns looks only at the
\* bucket of class bucket_idx(align(n)): if that bucket has an unused block
\* of at least align(n) bytes, the call returns the first, in list order,
\* of the smallest such blocks, the break stays, and the block was not held
\* by the caller; otherwise the call grows the arena and returns the new
\* block, whatever the buckets of larger classes hold.
C25_SearchStaysInBucket ==
  [][(build = "segregated" /\ last'.op = "alloc" /\ last'.n > 0
      /\ fault' = "none") =>
       LET R     == S_align(last'.n)
           order == S_Order(mem, global_buckets[S_bucket_idx(R)], <<>>)
           own   == {order[i] : i \in 1..Len(order)}
           free  == {b \in own : mem[b + S_USED] = S_FALSE}
       IN  IF \E b \in free : mem[b] >= R
           THEN /\ last'.ret # NULL
                /\ BestFit(order, free, [b \in own |-> mem[b]], R,
                           S_hdr(last'.ret))
                /\ last'.ret \notin Held
                /\ brk' = brk
           ELSE /\ last'.ret = brk + S_HDR
                /\ brk' = brk + S_HDR + R]_vars

\* The third call, an alloc, has put a block of the first class above a
\* free block of the second class, which would have fitted.
C25_Witness ==
  /\ build = "segregated" /\ fault = "none" /\ calls = 3
  /\ last.op = "alloc" /\ last.ret # NULL
  /\ global_buckets[TINY_IDX] = S_hdr(last.ret)
  /\ global_buckets[SMALL_IDX] # NULL
  /\ global_buckets[SMALL_IDX] < S_hdr(last.ret)
  /\ mem[global_buckets[SMALL_IDX] + S_USED] = S_FALSE

\* explicit: the list with head head in memory m ends, the head has no
\* next, and every node is the next of its prev.
E_WellFormed(m, head) ==
  LET order == E_Order(m, head, <<>>)
  IN  /\ head # NULL =>
           /\ Len(order) > 0
           /\ m[head + E_NEXT] = NULL
           /\ m[order[Len(order)] + E_PREV] = NULL
      /\ \A i \in 1..(Len(order) - 1) : m[order[i + 1] + E_NEXT] = order[i]

\* C26: after every alloc and wfree of the explicit program that returns,
\* global_free_list is an acyclic doubly linked list (the head's next is
\* null, the walk through prev ends at a node whose prev is null, every
\* node with a prev is the next of that prev), find_block ends for every
\* request, and after wfree(p) the head is p's block unless that block was
\* merged into the block in front of it, which is then the head.
C26_FreeListWellFormed ==
  [][(build = "explicit" /\ fault' = "none"
      /\ last'.op \in {"alloc", "free"}) =>
       /\ E_WellFormed(mem', global_free_list')
       /\ \A R \in SearchSizes :
            E_find_block(Machine(FALSE)', R).fault = "none"
       /\ (last'.op = "free" /\ last'.p # NULL) =>
            LET blk  == E_mem_hdr(last'.p)
                head == global_free_list'
            IN  \/ head = blk
                \/ /\ head # NULL /\ head < blk
                   /\ head + E_HDR + mem'[head] = blk + E_HDR + mem'[blk]]_vars

\* C27: a calloc(0, size) of the explicit program, whatever size is, also
\* above the bound of the quick test, divides nothing by zero: it
\* completes and returns null.
C27_ZeroCount ==
  [][(build = "explicit" /\ fault = "none" /\ last'.op = "calloc"
      /\ last'.n = 0) =>
       /\ fault' = "none"
       /\ last'.ret = NULL]_vars

====
